---- MODULE Spec2Model ----
(***************************************************************************)
(* A model of the radix redis driver: the command batch (MultiCommand) of  *)
(* the redis package, the protocol connection (connWrap) and the deadline  *)
(* stream (timeoutConn) of radix.go.                                       *)
(*                                                                         *)
(* Three specifications share the module, one per component:              *)
(*   SpecBatch     MultiCommand: Command, Flush, process                   *)
(*   Spec          connWrap: Do, Encode, Decode                            *)
(*   SpecDeadline  timeoutConn: Read, Write against a clock                *)
(***************************************************************************)
EXTENDS Integers, Sequences, FiniteSets, TLC

VARIABLES
    \* ---- MultiCommand (src/unnamed/part_000) ----
    transaction,  \* mc.transaction
    cmds,         \* mc.cmds, the queue
    r,            \* the *Reply the last Flush/process returned
    outcome,      \* "none" | "returned" | "panic": how the last finalization ended
    lastOp,       \* "none" | "Command" | "Flush" | "process"
    sent,         \* history: the commands the last finalization handed to the connection
    raw,          \* history: the reply mc.c.multiCommand gave the last finalization
    nUser,        \* history: how many commands the last user function queued
    logged,       \* history: the commands given to Command and not flushed before the last operation
    \* ---- connWrap (src/radix.go) ----
    closed,       \* the underlying net.Conn has been closed
    closeCalls,   \* how many times Close was called on the underlying net.Conn
    wbuf,         \* cw.brw.Writer: the bytes buffered
    werr,         \* cw.brw.Writer: its sticky error
    stream,       \* the bytes written to the underlying net.Conn, in order
    rbuf,         \* cw.brw.Reader: the replies read from the stream and not yet decoded
    wpc,          \* where the writing goroutine stands: "idle" | "marshalled" | "deferred"
    wcall,        \* the call the writing goroutine is in
    wret,         \* what the writing goroutine's last call returned
    rpc,          \* where the reading goroutine stands: "idle" | "unmarshalled"
    rcall,        \* the call the reading goroutine is in
    rret,         \* what the reading goroutine's last call returned
    failed,       \* history: an Encode or Decode has returned a transport error
    \* ---- timeoutConn (src/radix.go) ----
    timeout,      \* tc.timeout
    now,          \* the clock, time.Now()
    rdl,          \* the underlying net.Conn's read deadline: {} (not set) or {t}
    wdl,          \* the underlying net.Conn's write deadline: {} (not set) or {t}
    rd,           \* the Read in flight: [pending, start]
    wr,           \* the Write in flight: [pending, start]
    rres,         \* how the last Read ended: "none" | "ok" | "timeout"
    wres,         \* how the last Write ended
    lastSet       \* history: the last SetDeadline call, {[at, by]} ({}: never called)

batchVars == <<transaction, cmds, r, outcome, lastOp, sent, raw, nUser, logged>>

connVars == <<closed, closeCalls, wbuf, werr, stream, rbuf, wpc, wcall, wret,
              rpc, rcall, rret, failed>>

tcVars == <<timeout, now, rdl, wdl, rd, wr, rres, wres, lastSet>>

vars == <<batchVars, connVars, tcVars>>

(***************************************************************************)
(* Bounds.                                                                 *)
(***************************************************************************)
MaxQueue == 4   \* the queue never grows past this many commands
MaxUser == 2    \* a user function queues at most this many commands
MaxStream == 3  \* no Encode starts that could bring the stream past this many bytes
MaxCloses == 3  \* no call starts that could bring the Close calls past this many
BufCap == 2     \* the capacity of the buffered writer, scaled down
MaxTime == 5    \* the clock stops here

(***************************************************************************)
(* Errors and replies.                                                     *)
(***************************************************************************)
Nil == "nil"
NetErr == "net: i/o timeout"
ServerErr == "ERR"
ExecAbort == "EXECABORT"
UnknownTxErr == "unknown transaction error"

NetReset == "net: connection reset"
NetClosed == "net: use of closed network connection"
EncErr == "resp: cannot marshal"
DecErr == "resp: cannot unmarshal"
ActErr == "action failed"
ShortWrite == "short write"

\* err.(net.Error)
IsNetError(e) == e \in {NetErr, NetReset, NetClosed}

UserNames == {"SET", "GET"}

\* A reply: its error slot, its shape, the command it answers, its nested replies.
Reply(err, kind, re, elems) == [Error |-> err, kind |-> kind, re |-> re, elems |-> elems]

NoReply == [kind |-> "none"]
Absent == [kind |-> "absent"]

Last(s) == s[Len(s)]

SeqsUpTo(S, n) == UNION {[1..k -> S] : k \in 0..n}

(***************************************************************************)
(* The server, as the connection sees it: one reply per command, in order. *)
(* bad is the position the server answers with an error (0: none); nilExec *)
(* makes the commit reply a nil reply (neither an error nor a sequence).   *)
(* A commit reply that is a sequence has one nested reply per command      *)
(* queued since the begin marker, in order.                                *)
(***************************************************************************)
RECURSIVE Serve(_, _, _, _, _, _, _)
Serve(cs, i, inMulti, queued, aborted, bad, nilExec) ==
    IF i > Len(cs) THEN <<>>
    ELSE LET c == cs[i] IN
      IF c = "MULTI" THEN
        <<Reply(IF i = bad THEN ServerErr ELSE Nil, "status", c, <<>>)>>
          \o Serve(cs, i + 1, i # bad, <<>>, FALSE, bad, nilExec)
      ELSE IF c = "EXEC" THEN
        <<(IF i = bad \/ aborted \/ ~inMulti THEN Reply(ExecAbort, "error", c, <<>>)
           ELSE IF nilExec THEN Reply(Nil, "nil", c, <<>>)
           ELSE Reply(Nil, "multi", c,
                      [k \in 1..Len(queued) |-> Reply(Nil, "value", queued[k], <<>>)]))>>
          \o Serve(cs, i + 1, FALSE, <<>>, FALSE, bad, nilExec)
      ELSE IF inMulti THEN
        <<Reply(IF i = bad THEN ServerErr ELSE Nil, "status", c, <<>>)>>
          \o Serve(cs, i + 1, TRUE, IF i = bad THEN queued ELSE Append(queued, c),
                   aborted \/ i = bad, bad, nilExec)
      ELSE
        <<Reply(IF i = bad THEN ServerErr ELSE Nil, "value", c, <<>>)>>
          \o Serve(cs, i + 1, FALSE, queued, aborted, bad, nilExec)

ServerReplies(cs, bad, nilExec) == Serve(cs, 1, FALSE, <<>>, FALSE, bad, nilExec)

(***************************************************************************)
(* connection.multiCommand: every command is written, then one reply per   *)
(* command is decoded in order. failAt = Len(cs) is a run without          *)
(* transport error; failAt < Len(cs) is a transport error met after failAt *)
(* replies were decoded: the reply carries the error and the replies       *)
(* decoded so far, and the remaining decodes are not attempted.            *)
(***************************************************************************)
multiCommand(cs, replies, failAt) ==
    IF failAt >= Len(cs)
    THEN Reply(Nil, "multi", "", replies)
    ELSE Reply(NetErr, "multi", "", SubSeq(replies, 1, failAt))

\* Reply.At(i), i counted from 0: the i-th nested reply, absent when out of range.
At(rr, i) == IF i >= 0 /\ i < Len(rr.elems) THEN rr.elems[i + 1] ELSE Absent

(***************************************************************************)
(* The protocol connection, connWrap.                                      *)
(*                                                                         *)
(* A marshaler writes its bytes one by one into the buffered writer and    *)
(* returns the first write error; a marshaler with bad > 0 gives up with   *)
(* an encoding error after bad - 1 bytes. An unmarshaler consumes one      *)
(* reply from the buffered reader; the reply "bad" does not unmarshal.     *)
(***************************************************************************)
Marshalers ==
    { [bytes |-> <<"a1", "a2">>, bad |-> 0],
      [bytes |-> <<"b1">>, bad |-> 0],
      [bytes |-> <<"a1", "a2">>, bad |-> 2],
      [bytes |-> <<>>, bad |-> 0] }

\* What the reading end of the stream may deliver to one Read.
Deliveries == {<<"ok">>, <<"bad">>, <<"ok", "ok">>}

NoCall == [op |-> "none"]

\* How a write to an open stream may end: the bytes reach the stream, the network
\* fails (a net.Error), or the stream takes no bytes and reports no net.Error.
WriteOutcomes == {"ok", "reset", "short"}

\* net.Conn.Write of data: fails on a closed connection.
connWrite(strm, isClosed, data, ok) ==
    IF isClosed THEN [stream |-> strm, err |-> NetClosed]
    ELSE IF ok = "reset" THEN [stream |-> strm, err |-> NetReset]
    ELSE IF ok = "short" THEN [stream |-> strm, err |-> ShortWrite]
    ELSE [stream |-> strm \o data, err |-> Nil]

\* A Flush that writes nothing and reports no error of its own.
bufFlushNothing(b, isClosed, ok) == [b EXCEPT !.ret = b.err]

\* bufio.Writer.Flush on the writer state b = [buf, err, stream].
bufFlush(b, isClosed, ok) ==
    IF b.err # Nil THEN [b EXCEPT !.ret = b.err]
    ELSE IF b.buf = <<>> THEN [b EXCEPT !.ret = Nil]
    ELSE LET w == connWrite(b.stream, isClosed, b.buf, ok) IN
         IF w.err # Nil THEN [b EXCEPT !.err = w.err, !.ret = w.err]
         ELSE [buf |-> <<>>, err |-> Nil, stream |-> w.stream, ret |-> Nil]

\* bufio.Writer.Write of one byte: a full buffer is flushed first.
bufWrite(b, x, isClosed, ok) ==
    IF b.err # Nil THEN [b EXCEPT !.ret = b.err]
    ELSE IF Len(b.buf) >= BufCap
      THEN LET f == bufFlush(b, isClosed, ok) IN
           IF f.ret # Nil THEN f ELSE [f EXCEPT !.buf = Append(f.buf, x)]
    ELSE [b EXCEPT !.buf = Append(b.buf, x), !.ret = Nil]

\* m.MarshalRESP(cw.brw): the bytes of m from the i-th on.
RECURSIVE marshalFrom(_, _, _, _, _)
marshalFrom(m, i, b, isClosed, ok) ==
    IF m.bad = i THEN [b EXCEPT !.ret = EncErr]
    ELSE IF i > Len(m.bytes) THEN [b EXCEPT !.ret = Nil]
    ELSE LET w == bufWrite(b, m.bytes[i], isClosed, ok) IN
         IF w.ret # Nil THEN w ELSE marshalFrom(m, i + 1, w, isClosed, ok)

MarshalRESP(m, b, isClosed, ok) == marshalFrom(m, 1, b, isClosed, ok)

Writer == [buf |-> wbuf, err |-> werr, stream |-> stream, ret |-> Nil]

\* The calls in flight that may still call Close.
Active == (IF wpc = "idle" THEN 0 ELSE 1) + (IF rpc = "idle" THEN 0 ELSE 1)

CanStart == closeCalls + Active + 1 <= MaxCloses

\* A deferred check that sees only the marshaling error.
deferredErrAtDefer(call) == call.merr

\* Encode's deferred function, lines 66-70: it reads err as it stands when the
\* function returns, so it sees the flush error too.
deferredErr(call) == call.err

\* A test that closes on any error.
closesOnAnyError(e) == e # Nil

\* A self-closure that a connection already closed skips.
closesOnIfOpen(e) == IsNetError(e) /\ ~closed

\* The test that decides self-closure, lines 67 and 81.
closesOn(e) == IsNetError(e)

\* A Do that runs the action and drops what it returned.
doResultDropped(op, runErr) == IF op = "Do" THEN Nil ELSE runErr

\* Do, line 61: return a.Run(cw). What a call of kind op returns when the Encode,
\* the Decode or the action it stands for returned runErr.
doResult(op, runErr) == runErr

\* An Encode that empties the write buffer when marshaling failed.
returnDiscarding(b) == [b EXCEPT !.buf = <<>>]

\* Encode, lines 72-74: on a marshaling error the call returns at once; the
\* writer b is left as the marshaler left it.
returnUnflushed(b) == b

\* Encode, line 65 (also as the body of a Do whose action encodes). pre is what
\* the stream and the write buffer held when the call began.
EncodeMarshal(op, m, ok) ==
    LET w == MarshalRESP(m, Writer, closed, ok) IN
    /\ wpc = "idle"
    /\ CanStart
    /\ Len(stream) + Len(wbuf) + Len(m.bytes) <= MaxStream
    /\ wbuf' = w.buf
    /\ werr' = w.err
    /\ stream' = w.stream
    /\ wcall' = [op |-> op, m |-> m, merr |-> w.ret, ferr |-> "none", err |-> w.ret,
                 after |-> failed, pre |-> stream \o wbuf]
    /\ wret' = NoCall
    /\ wpc' = "marshalled"
    /\ UNCHANGED <<closed, closeCalls, rbuf, rpc, rcall, rret, failed>>

\* Encode, lines 72-76: return the marshaling error, or flush.
EncodeFlush(ok) ==
    /\ wpc = "marshalled"
    /\ IF wcall.err # Nil
       THEN LET k == returnUnflushed(Writer) IN
            /\ wbuf' = k.buf
            /\ werr' = k.err
            /\ stream' = k.stream
            /\ wcall' = wcall
       ELSE LET f == bufFlush(Writer, closed, ok) IN
            /\ wbuf' = f.buf
            /\ werr' = f.err
            /\ stream' = f.stream
            /\ wcall' = [wcall EXCEPT !.ferr = f.ret, !.err = f.ret]
    /\ wpc' = "deferred"
    /\ UNCHANGED <<closed, closeCalls, rbuf, wret, rpc, rcall, rret, failed>>

\* Encode, lines 66-70: the deferred function runs, then the call returns err.
EncodeReturn ==
    LET close == closesOn(deferredErr(wcall)) IN
    /\ wpc = "deferred"
    /\ closed' = (closed \/ close)
    /\ closeCalls' = closeCalls + (IF close THEN 1 ELSE 0)
    /\ wret' = [op |-> wcall.op, err |-> doResult(wcall.op, wcall.err),
                run |-> wcall.err, merr |-> wcall.merr,
                ferr |-> wcall.ferr, selfClosed |-> close, after |-> wcall.after]
    /\ failed' = (failed \/ IsNetError(wcall.err))
    /\ wcall' = NoCall
    /\ wpc' = "idle"
    /\ UNCHANGED <<wbuf, werr, stream, rbuf, rpc, rcall, rret>>

\* Decode, line 80 (also as the body of a Do whose action decodes): a reply is
\* taken from the buffered reader, which reads the stream when it is empty.
DecodeUnmarshal(op, delivery, ok) ==
    LET read == IF rbuf # <<>> THEN [buf |-> rbuf, err |-> Nil]
                ELSE IF closed THEN [buf |-> <<>>, err |-> NetClosed]
                ELSE IF ~ok THEN [buf |-> <<>>, err |-> NetErr]
                ELSE [buf |-> delivery, err |-> Nil]
        e == IF read.err # Nil THEN read.err
             ELSE IF read.buf[1] = "bad" THEN DecErr ELSE Nil
    IN
    /\ rpc = "idle"
    /\ CanStart
    /\ rbuf' = IF read.err # Nil THEN rbuf ELSE Tail(read.buf)
    /\ rcall' = [op |-> op, uerr |-> e, err |-> e,
                 val |-> IF read.err # Nil THEN "none" ELSE read.buf[1],
                 after |-> failed]
    /\ rret' = NoCall
    /\ rpc' = "unmarshalled"
    /\ UNCHANGED <<closed, closeCalls, wbuf, werr, stream, wpc, wcall, wret, failed>>

\* Decode, lines 81-84.
DecodeReturn ==
    LET close == closesOn(rcall.err) IN
    /\ rpc = "unmarshalled"
    /\ closed' = (closed \/ close)
    /\ closeCalls' = closeCalls + (IF close THEN 1 ELSE 0)
    /\ rret' = [op |-> rcall.op, err |-> doResult(rcall.op, rcall.err),
                run |-> rcall.err, uerr |-> rcall.uerr,
                val |-> rcall.val, selfClosed |-> close, after |-> rcall.after]
    /\ failed' = (failed \/ IsNetError(rcall.err))
    /\ rcall' = NoCall
    /\ rpc' = "idle"
    /\ UNCHANGED <<wbuf, werr, stream, rbuf, wpc, wcall, wret>>

Encode(m, ok) == EncodeMarshal("Encode", m, ok)

Decode(delivery, ok) == DecodeUnmarshal("Decode", delivery, ok)

\* Do, lines 60-62: a.Run(cw). The actions "nop" and "fail" touch nothing and
\* return nil and an error; "encode" and "decode" return what cw.Encode and
\* cw.Decode return.
DoPlain(a) ==
    /\ a \in {"nop", "fail"}
    /\ wpc = "idle"
    /\ wret' = [op |-> "Do", err |-> doResult("Do", IF a = "fail" THEN ActErr ELSE Nil),
                run |-> IF a = "fail" THEN ActErr ELSE Nil,
                merr |-> "none", ferr |-> "none", selfClosed |-> FALSE,
                after |-> failed]
    /\ UNCHANGED <<closed, closeCalls, wbuf, werr, stream, rbuf, wpc, wcall,
                   rpc, rcall, rret, failed>>

DoEncode(m, ok) == EncodeMarshal("Do", m, ok)

DoDecode(delivery, ok) == DecodeUnmarshal("Do", delivery, ok)

\* Client.Close, lines 17-19: the embedded net.Conn's Close.
Close ==
    /\ CanStart
    /\ closed' = TRUE
    /\ closeCalls' = closeCalls + 1
    /\ UNCHANGED <<wbuf, werr, stream, rbuf, wpc, wcall, wret, rpc, rcall, rret, failed>>

(***************************************************************************)
(* MultiCommand.                                                           *)
(***************************************************************************)
\* The commands given to Command that no Flush has sent yet.
Pending == IF lastOp = "Flush" THEN <<>> ELSE logged

\* A queue that grows at the wrong end.
commandFront(q, c) == <<c>> \o q

\* mc.command: append to the queue.
command(q, c) == Append(q, c)

\* mc.Multi / mc.Exec queue the begin and the commit marker.
Multi(q) == command(q, "MULTI")
Exec(q) == command(q, "EXEC")

RECURSIVE commandAll(_, _)
commandAll(q, us) == IF us = <<>> THEN q ELSE commandAll(command(q, us[1]), Tail(us))

\* An unwrapping that forgets to splice the commit reply's nested replies in.
unwrapExecNoSplice(rr) ==
    LET execReply == At(rr, Len(rr.elems) - 1) IN
    IF execReply = Absent THEN [outcome |-> "panic", r |-> NoReply]
    ELSE IF execReply.Error = Nil THEN [outcome |-> "returned", r |-> rr]
    ELSE [outcome |-> "returned", r |-> [rr EXCEPT !.Error = execReply.Error]]

\* process, lines 31-40: the commit reply is unwrapped into the batch's reply.
\* Reading the error slot of an absent reply is a nil dereference.
unwrapExec(rr) ==
    LET execReply == At(rr, Len(rr.elems) - 1) IN
    IF execReply = Absent THEN [outcome |-> "panic", r |-> NoReply]
    ELSE IF execReply.Error = Nil
      THEN [outcome |-> "returned", r |-> [rr EXCEPT !.elems = execReply.elems]]
    ELSE IF execReply.Error # Nil
      THEN [outcome |-> "returned", r |-> [rr EXCEPT !.Error = execReply.Error]]
    ELSE [outcome |-> "returned", r |-> [rr EXCEPT !.Error = UnknownTxErr]]

\* The queue Flush leaves behind.
flushQueue(q) == <<>>

\* The queue process leaves behind: what it sent.
processQueue(q) == q

Command(c) ==
    /\ Len(cmds) < MaxQueue
    /\ cmds' = command(cmds, c)
    /\ logged' = Append(Pending, c)
    /\ lastOp' = "Command"
    /\ r' = NoReply
    /\ outcome' = "none"
    /\ sent' = <<>>
    /\ raw' = NoReply
    /\ nUser' = 0
    /\ UNCHANGED <<transaction, connVars, tcVars>>

\* What the connection and the server may do with the batch q: the server answers
\* position bad with an error, or answers a commit with a nil reply; a transport
\* error comes after failAt replies. An error the transport error hides is no case
\* of its own.
Runs(q) ==
    { [bad |-> bad, nilExec |-> nilExec, failAt |-> failAt] :
        bad \in 0..Len(q), nilExec \in BOOLEAN, failAt \in 0..Len(q) }

RunsOf(q) ==
    { e \in Runs(q) : /\ e.bad <= e.failAt
                      /\ e.nilExec => (\E i \in 1..e.failAt : q[i] = "EXEC") }

Flush ==
    \E e \in RunsOf(cmds) :
      \E rr \in {multiCommand(cmds, ServerReplies(cmds, e.bad, e.nilExec), e.failAt)} :
        /\ sent' = cmds
        /\ raw' = rr
        /\ r' = rr
        /\ outcome' = "returned"
        /\ cmds' = flushQueue(cmds)
        /\ logged' = Pending
        /\ nUser' = 0
        /\ lastOp' = "Flush"
        /\ UNCHANGED <<transaction, connVars, tcVars>>

\* A process that queues the commit marker before it invokes the user function.
queuedCommitFirst(q, us, tx) ==
    IF tx THEN commandAll(Exec(Multi(q)), us) ELSE commandAll(q, us)

\* process, lines 20-28: the queue q after mc.Multi(), userCommands(mc) queueing
\* us, and mc.Exec(); without the markers when the batch is no transaction.
queued(q, us, tx) ==
    IF tx THEN Exec(commandAll(Multi(q), us)) ELSE commandAll(q, us)

process(us) ==
    \E q3 \in {queued(cmds, us, transaction)} :
      /\ Len(q3) <= MaxQueue
      /\ \E e \in RunsOf(q3) :
           \E rr \in {multiCommand(q3, ServerReplies(q3, e.bad, e.nilExec), e.failAt)} :
             \E res \in {IF transaction THEN unwrapExec(rr)
                         ELSE [outcome |-> "returned", r |-> rr]} :
               /\ sent' = q3
               /\ raw' = rr
               /\ r' = res.r
               /\ outcome' = res.outcome
               /\ cmds' = processQueue(q3)
               /\ logged' = Pending \o us
               /\ nUser' = Len(us)
               /\ lastOp' = "process"
               /\ UNCHANGED <<transaction, connVars, tcVars>>

(***************************************************************************)
(* The deadline stream, timeoutConn, against a discrete clock. A Read or a *)
(* Write sets the deadline and then enters the underlying call, which ends *)
(* with data or, once its deadline is reached, with a timeout. The clock   *)
(* does not pass a deadline while a call it bounds is still blocked, and   *)
(* does not advance between setting a deadline and entering the call.      *)
(***************************************************************************)
Timeouts == {0 - 1, 0, 1, 2}

NoOp == [pending |-> FALSE, start |-> 0, inner |-> FALSE]

\* A setDeadline without the test of the timeout.
setDeadlineUnguarded(dls, own, t, T) == [read |-> {t + T}, write |-> {t + T}]

\* A deadline that covers only the direction of the call that set it.
setDeadlineOwn(dls, own, t, T) ==
    IF T > 0 THEN [dls EXCEPT ![own] = {t + T}] ELSE dls

\* tc.setDeadline, lines 111-115: net.Conn.SetDeadline sets the read and the
\* write deadline, whichever call asks; own is the direction of that call.
setDeadline(dls, own, t, T) ==
    IF T > 0 THEN [read |-> {t + T}, write |-> {t + T}] ELSE dls

Deadlines == [read |-> rdl, write |-> wdl]

Expired(dl) == \E t \in dl : now >= t

\* timeoutConn.Read, line 118: the deadline is set.
Read ==
    LET d == setDeadline(Deadlines, "read", now, timeout) IN
    /\ ~rd.pending
    /\ rdl' = d.read
    /\ wdl' = d.write
    /\ lastSet' = IF timeout > 0 THEN {[at |-> now, by |-> "read"]} ELSE lastSet
    /\ rd' = [pending |-> TRUE, start |-> now, inner |-> FALSE]
    /\ rres' = "none"
    /\ UNCHANGED <<timeout, now, wr, wres>>

\* timeoutConn.Read, line 119: the underlying Read is entered.
ReadCall ==
    /\ rd.pending /\ ~rd.inner
    /\ rd' = [rd EXCEPT !.inner = TRUE]
    /\ UNCHANGED <<timeout, now, rdl, wdl, wr, rres, wres, lastSet>>

\* The underlying Read returns data before its deadline.
ReadDone ==
    /\ rd.inner
    /\ ~Expired(rdl)
    /\ rd' = NoOp
    /\ rres' = "ok"
    /\ UNCHANGED <<timeout, now, rdl, wdl, wr, wres, lastSet>>

\* The underlying Read fails with a timeout at its deadline.
ReadTimeout ==
    /\ rd.inner
    /\ Expired(rdl)
    /\ rd' = NoOp
    /\ rres' = "timeout"
    /\ UNCHANGED <<timeout, now, rdl, wdl, wr, wres, lastSet>>

\* timeoutConn.Write, line 123.
Write ==
    LET d == setDeadline(Deadlines, "write", now, timeout) IN
    /\ ~wr.pending
    /\ rdl' = d.read
    /\ wdl' = d.write
    /\ lastSet' = IF timeout > 0 THEN {[at |-> now, by |-> "write"]} ELSE lastSet
    /\ wr' = [pending |-> TRUE, start |-> now, inner |-> FALSE]
    /\ wres' = "none"
    /\ UNCHANGED <<timeout, now, rd, rres>>

\* timeoutConn.Write, line 124: the underlying Write is entered.
WriteCall ==
    /\ wr.pending /\ ~wr.inner
    /\ wr' = [wr EXCEPT !.inner = TRUE]
    /\ UNCHANGED <<timeout, now, rdl, wdl, rd, rres, wres, lastSet>>

WriteDone ==
    /\ wr.inner
    /\ ~Expired(wdl)
    /\ wr' = NoOp
    /\ wres' = "ok"
    /\ UNCHANGED <<timeout, now, rdl, wdl, rd, rres, lastSet>>

WriteTimeout ==
    /\ wr.inner
    /\ Expired(wdl)
    /\ wr' = NoOp
    /\ wres' = "timeout"
    /\ UNCHANGED <<timeout, now, rdl, wdl, rd, rres, lastSet>>

Tick ==
    /\ now < MaxTime
    /\ rd.pending => (rd.inner /\ ~Expired(rdl))
    /\ wr.pending => (wr.inner /\ ~Expired(wdl))
    /\ now' = now + 1
    /\ UNCHANGED <<timeout, rdl, wdl, rd, wr, rres, wres, lastSet>>

(***************************************************************************)
(* The specifications. Each drives one component and leaves the others in  *)
(* their initial state.                                                    *)
(***************************************************************************)
\* newMultiCommand, lines 10-15, before a mode is chosen.
InitBatchIdle ==
    /\ cmds = <<>>
    /\ r = NoReply
    /\ outcome = "none"
    /\ lastOp = "none"
    /\ sent = <<>>
    /\ raw = NoReply
    /\ nUser = 0
    /\ logged = <<>>

\* NewConn, lines 53-58.
InitConnIdle ==
    /\ closed = FALSE
    /\ closeCalls = 0
    /\ wbuf = <<>>
    /\ werr = Nil
    /\ stream = <<>>
    /\ rbuf = <<>>
    /\ wpc = "idle"
    /\ wcall = NoCall
    /\ wret = NoCall
    /\ rpc = "idle"
    /\ rcall = NoCall
    /\ rret = NoCall
    /\ failed = FALSE

\* DialTimeout, lines 129-135: no deadline is set at construction.
InitDeadlineIdle ==
    /\ now = 0
    /\ rdl = {}
    /\ wdl = {}
    /\ rd = NoOp
    /\ wr = NoOp
    /\ rres = "none"
    /\ wres = "none"
    /\ lastSet = {}

InitBatch ==
    /\ transaction \in BOOLEAN
    /\ timeout = 0
    /\ InitBatchIdle /\ InitConnIdle /\ InitDeadlineIdle

NextBatch ==
    \/ \E c \in UserNames : Command(c)
    \/ Flush
    \/ \E us \in SeqsUpTo(UserNames, MaxUser) : process(us)

SpecBatch == InitBatch /\ [][NextBatch]_vars

Init ==
    /\ transaction = FALSE
    /\ timeout = 0
    /\ InitBatchIdle /\ InitConnIdle /\ InitDeadlineIdle

Next ==
    \/ \E m \in Marshalers, ok \in WriteOutcomes : Encode(m, ok) /\ UNCHANGED <<batchVars, tcVars>>
    \/ \E ok \in WriteOutcomes : EncodeFlush(ok) /\ UNCHANGED <<batchVars, tcVars>>
    \/ EncodeReturn /\ UNCHANGED <<batchVars, tcVars>>
    \/ \E d \in Deliveries, ok \in BOOLEAN : Decode(d, ok) /\ UNCHANGED <<batchVars, tcVars>>
    \/ DecodeReturn /\ UNCHANGED <<batchVars, tcVars>>
    \/ \E a \in {"nop", "fail"} : DoPlain(a) /\ UNCHANGED <<batchVars, tcVars>>
    \/ \E m \in Marshalers, ok \in WriteOutcomes : DoEncode(m, ok) /\ UNCHANGED <<batchVars, tcVars>>
    \/ \E d \in Deliveries, ok \in BOOLEAN : DoDecode(d, ok) /\ UNCHANGED <<batchVars, tcVars>>
    \/ Close /\ UNCHANGED <<batchVars, tcVars>>

Spec == Init /\ [][Next]_vars

InitDeadline ==
    /\ transaction = FALSE
    /\ timeout \in Timeouts
    /\ InitBatchIdle /\ InitConnIdle /\ InitDeadlineIdle

NextDeadline ==
    \/ Read /\ UNCHANGED <<batchVars, connVars>>
    \/ ReadCall /\ UNCHANGED <<batchVars, connVars>>
    \/ ReadDone /\ UNCHANGED <<batchVars, connVars>>
    \/ ReadTimeout /\ UNCHANGED <<batchVars, connVars>>
    \/ Write /\ UNCHANGED <<batchVars, connVars>>
    \/ WriteCall /\ UNCHANGED <<batchVars, connVars>>
    \/ WriteDone /\ UNCHANGED <<batchVars, connVars>>
    \/ WriteTimeout /\ UNCHANGED <<batchVars, connVars>>
    \/ Tick /\ UNCHANGED <<batchVars, connVars>>

SpecDeadline == InitDeadline /\ [][NextDeadline]_vars

(***************************************************************************)
(* Claims about the protocol connection, checked under Spec.               *)
(***************************************************************************)
Returned(ret) == ret.op # "none"

\* The call was an Encode or a Decode, made directly or by a Do's action.
Encoded(ret) == Returned(ret) /\ ret.merr # "none"

\* C1: an Encode whose marshaling step or flush step met a transport error, and
\* a Decode whose unmarshaling step met one, has called Close on the stream by
\* the time it returns, and returns that error.
C1_TransportErrorCloses ==
    /\ (Encoded(wret) /\ (IsNetError(wret.merr) \/ IsNetError(wret.ferr)))
         => /\ wret.selfClosed
            /\ closed
            /\ closeCalls > 0
            /\ wret.err = (IF wret.merr # Nil THEN wret.merr ELSE wret.ferr)
    /\ (Returned(rret) /\ IsNetError(rret.uerr))
         => /\ rret.selfClosed
            /\ closed
            /\ closeCalls > 0
            /\ rret.err = rret.uerr

\* An Encode that marshalled without error, met a transport error in its flush
\* on an open connection and closed it; and a Decode that met a transport error.
C1_Witness ==
    /\ Encoded(wret) /\ wret.merr = Nil /\ wret.ferr = NetReset /\ wret.selfClosed
    /\ Returned(rret) /\ IsNetError(rret.uerr) /\ rret.selfClosed
    /\ closeCalls = 2

\* C2 (as claimed): once an Encode or Decode has met a transport error the
\* connection is closed and every later Do, Encode and Decode returns an error.
C2_AfterTransportErrorAllFail ==
    /\ failed => closed
    /\ (Returned(wret) /\ wret.after) => wret.err # Nil
    /\ (Returned(rret) /\ rret.after) => rret.err # Nil

\* C10: an Encode or Decode that fails with an error that is not a net.Error
\* returns that error and does not call Close on the stream.
C10_NonTransportErrorKeepsOpen ==
    /\ (Encoded(wret) /\ wret.err # Nil /\ ~IsNetError(wret.err))
         => /\ ~wret.selfClosed
            /\ wret.err = (IF wret.merr # Nil THEN wret.merr ELSE wret.ferr)
    /\ (Returned(rret) /\ rret.err # Nil /\ ~IsNetError(rret.err))
         => /\ ~rret.selfClosed
            /\ rret.err = rret.uerr

\* An Encode that failed to marshal and a Decode that failed to unmarshal, the
\* connection still open with no Close ever called.
C10_Witness ==
    /\ Encoded(wret) /\ wret.merr = EncErr
    /\ Returned(rret) /\ rret.uerr = DecErr
    /\ ~closed /\ closeCalls = 0

\* An Encode whose flush failed with an error that is no net.Error.
C10_WitnessFlush ==
    /\ Encoded(wret) /\ wret.merr = Nil /\ wret.ferr = ShortWrite /\ ~closed

\* The writing goroutine's step is a Do whose action touches nothing.
PlainDoStep == wpc = "idle" /\ wpc' = "idle" /\ wret' # wret

\* C11: Do(a) runs a once against the connection and returns exactly what a.Run
\* returned; Do itself reads, writes, flushes and closes nothing: a Do whose
\* action touches nothing leaves the connection as it was, and a Do whose action
\* encodes or decodes does to the connection what that Encode or Decode does.
C11_DoDelegates ==
    [][ /\ (Returned(wret') /\ wret'.op = "Do") => wret'.err = wret'.run
        /\ (Returned(rret') /\ rret'.op = "Do") => rret'.err = rret'.run
        /\ PlainDoStep =>
             /\ wret'.op = "Do"
             /\ ~wret'.selfClosed
             /\ UNCHANGED <<closed, closeCalls, wbuf, werr, stream, rbuf, rpc, rcall,
                            rret, failed>> ]_vars

\* A Do whose action failed without touching the connection, beside a Do whose
\* action decoded and met a transport error.
C11_Witness ==
    /\ Returned(wret) /\ wret.op = "Do" /\ wret.err = ActErr
    /\ Returned(rret) /\ rret.op = "Do" /\ rret.err = NetErr /\ rret.selfClosed

\* A step of the goroutine inside Encode, and one of the goroutine inside Decode.
WriterStep == wpc' # wpc

ReaderStep == rpc' # rpc

EncodeReturns == wpc = "deferred" /\ wpc' = "idle"

EncodeReturnsNil == EncodeReturns /\ wcall.err = Nil

IsPrefix(p, q) == Len(p) <= Len(q) /\ SubSeq(q, 1, Len(p)) = p

\* C15: when an Encode returns nil its whole message is on the stream and nothing
\* is left in the write buffer: the stream is what the stream and the buffer held
\* when the call began, followed by the message. Bytes on the stream stay where
\* they are, so of two Encodes that return nil one after the other, every byte of
\* the first precedes every byte of the second.
C15_MessagesWholeAndInOrder ==
    [][ /\ IsPrefix(stream, stream')
        /\ EncodeReturnsNil =>
              /\ wbuf' = <<>>
              /\ stream' = wcall.pre \o wcall.m.bytes
        /\ (wpc = "idle" /\ wpc' = "marshalled" /\ Encoded(wret) /\ wret.err = Nil) =>
              (wbuf = <<>> /\ wcall'.pre = stream) ]_vars

\* Two messages written whole, one after the other, by Encodes that returned nil.
C15_Witness ==
    /\ wpc = "idle" /\ Encoded(wret) /\ wret.err = Nil /\ ~wret.after
    /\ stream = <<"a1", "a2", "b1">> /\ wbuf = <<>>

\* C16: an Encode whose marshaling step returned an error returns without
\* flushing and without emptying the write buffer: the bytes the marshaler had
\* put there stay, and the next Encode that returns nil has written them to the
\* stream ahead of its own message.
C16_FailedMarshalLeavesBytes ==
    [][ /\ (wpc = "marshalled" /\ wcall.merr # Nil /\ wpc' = "deferred") =>
              (UNCHANGED <<wbuf, werr, stream>> /\ wcall'.ferr = "none")
        /\ EncodeReturns => UNCHANGED <<wbuf, werr, stream>>
        /\ (wpc = "idle" /\ wpc' = "marshalled") =>
              /\ wcall'.pre = stream \o wbuf
              /\ wcall'.merr = EncErr =>
                    stream' \o wbuf' = stream \o wbuf
                        \o SubSeq(wcall'.m.bytes, 1, wcall'.m.bad - 1)
        /\ EncodeReturnsNil => stream = wcall.pre \o wcall.m.bytes ]_vars

\* The first byte of a message whose marshaling failed stands on the stream ahead
\* of the next message, written there by the Encode of that next message.
C16_Witness ==
    /\ wpc = "idle" /\ Encoded(wret) /\ wret.err = Nil
    /\ stream = <<"a1", "b1">> /\ wbuf = <<>>

\* The first byte of a message whose marshaling failed is left in the write
\* buffer by an Encode that returned the marshaling error.
C16_WitnessBuffered ==
    /\ wpc = "idle" /\ Encoded(wret) /\ wret.merr = EncErr /\ wret.err = EncErr
    /\ ~closed /\ wbuf = <<"a1">> /\ stream = <<>>

\* C18: the connection keeps no closed flag and self-closure is unguarded: every
\* Encode and every Decode that returns a transport error calls Close, on a
\* connection already closed as on an open one, so an Encode and a Decode that
\* both meet a transport error each call Close, and Close is called on the stream
\* more than once.
C18_SelfClosureUnguarded ==
    [][ /\ (EncodeReturns /\ IsNetError(wcall.err)) =>
              (closeCalls' = closeCalls + 1 /\ closed' /\ wret'.selfClosed)
        /\ (rpc = "unmarshalled" /\ rpc' = "idle" /\ IsNetError(rcall.err)) =>
              (closeCalls' = closeCalls + 1 /\ closed' /\ rret'.selfClosed) ]_vars

\* An Encode and a Decode, in flight together on an open connection, each met a
\* transport error and each called Close: the second on a closed connection.
C18_Witness ==
    /\ Encoded(wret) /\ wret.op = "Encode" /\ wret.err = NetReset /\ wret.selfClosed
    /\ Returned(rret) /\ rret.op = "Decode" /\ rret.err = NetErr /\ rret.selfClosed
    /\ ~wret.after /\ ~rret.after
    /\ closeCalls = 2

\* A Decode on a connection that is already closed closes it again.
C18_WitnessClosedBefore ==
    /\ Returned(rret) /\ rret.err = NetClosed /\ rret.selfClosed /\ closeCalls >= 2

(***************************************************************************)
(* Claims about the command batch, checked under SpecBatch.                *)
(***************************************************************************)
Finalized == lastOp \in {"Flush", "process"}

\* The last finalization decoded every reply, so the last reply is the commit reply.
CommitReplied == Len(raw.elems) = Len(sent) /\ Len(sent) > 0

\* The commands the last user function queued, as they stand in the batch sent.
UserSent == SubSeq(sent, Len(sent) - nUser, Len(sent) - 1)

\* C3: a transactional process whose commit step succeeded returns exactly the
\* replies nested in the commit reply, one per command the user function queued,
\* in submission order; no reply to a begin or commit marker is among them.
C3_TxReturnsCommitElems ==
    (lastOp = "process" /\ transaction /\ raw.Error = Nil
       /\ Last(raw.elems).Error = Nil /\ Last(raw.elems).kind = "multi")
    => /\ outcome = "returned"
       /\ r.Error = Nil
       /\ r.elems = Last(raw.elems).elems
       /\ Len(r.elems) = nUser
       /\ \A k \in 1..nUser : r.elems[k].re = UserSent[k]
       /\ \A k \in 1..Len(r.elems) : r.elems[k].re \notin {"MULTI", "EXEC"}

C3_Witness ==
    /\ lastOp = "process" /\ transaction /\ raw.Error = Nil
    /\ Last(raw.elems).kind = "multi"
    /\ nUser = 2 /\ Len(r.elems) = 2 /\ Len(sent) = 4
    /\ r.elems[1].re # r.elems[2].re

\* C4 (as claimed): when the commit reply carries an error, process returns that
\* error as the top-level error and an empty element sequence.
C4_CommitErrorNoReplies ==
    (lastOp = "process" /\ transaction /\ CommitReplied /\ Last(raw.elems).Error # Nil)
    => /\ outcome = "returned"
       /\ r.Error = Last(raw.elems).Error
       /\ r.elems = <<>>

\* C5 (as claimed): when the commit reply carries no error and is not a sequence
\* of nested replies, process returns the unknown transaction error.
C5_MalformedCommitIsError ==
    (lastOp = "process" /\ transaction /\ CommitReplied
       /\ Last(raw.elems).Error = Nil /\ Last(raw.elems).kind # "multi")
    => /\ outcome = "returned"
       /\ r.Error = UnknownTxErr

\* C6: in a non-transactional batch, Flush hands the connection exactly the
\* commands given to Command, in queue order, returns one reply per command in
\* that order when no transport error occurs, and leaves the queue empty.
C6_FlushSendsQueueAndClears ==
    (lastOp = "Flush" /\ ~transaction)
    => /\ sent = logged
       /\ cmds = <<>>
       /\ outcome = "returned"
       /\ r.Error = raw.Error
       /\ (raw.Error = Nil
             => /\ Len(r.elems) = Len(logged)
                /\ \A k \in 1..Len(logged) : r.elems[k].re = logged[k])

C6_Witness ==
    /\ lastOp = "Flush" /\ ~transaction /\ raw.Error = Nil
    /\ Len(sent) = 2 /\ sent[1] # sent[2] /\ Len(r.elems) = 2 /\ cmds = <<>>

\* C7 (as claimed): when the pipelined send/receive of a Flush or a process ends
\* with a transport error, the reply returned carries that transport error as its
\* top-level error.
C7_TransportErrorKept ==
    (Finalized /\ raw.Error = NetErr /\ outcome = "returned") => r.Error = NetErr

\* C9 (as claimed): after Flush returns and after process returns the queue is
\* empty.
C9_QueueClearedAfterFinalization ==
    Finalized => cmds = <<>>

(***************************************************************************)
(* Claims about the deadline stream, checked under SpecDeadline.           *)
(***************************************************************************)
\* The commands the user function queued in the last process.
UserQueued == SubSeq(logged, Len(logged) - nUser + 1, Len(logged))

Bracketed(us, tx) == IF tx THEN <<"MULTI">> \o us \o <<"EXEC">> ELSE us

C17_CommitIndexNeverNegative ==
    (lastOp = "process" /\ transaction) =>
        /\ Len(raw.elems) - 1 >= 0
        /\ outcome # "panic"

\* C8 (as claimed): with a timeout T > 0 no read and no write is still
\* unresolved later than T past its start, whatever the other direction does.
C8_ResolvedWithinTimeout ==
    timeout > 0 =>
        /\ rd.pending => now <= rd.start + timeout
        /\ wr.pending => now <= wr.start + timeout

\* A Read and a Write are entered, and their underlying calls are entered.
ReadStarts == rd'.pending /\ ~rd.pending

WriteStarts == wr'.pending /\ ~wr.pending

ReadEnters == rd'.inner /\ ~rd.inner

WriteEnters == wr'.inner /\ ~wr.inner

\* C14: with a timeout T > 0 every Read and every Write first sets the stream's
\* deadline to the current time + T and only then enters the underlying call,
\* which sets no deadline itself; with a timeout of zero or less no Read and no
\* Write ever sets a deadline.
C14_DeadlineSetBeforeCall ==
    [][ /\ (ReadStarts /\ timeout > 0) =>
              /\ rdl' = {now + timeout}
              /\ lastSet' = {[at |-> now, by |-> "read"]}
              /\ ~rd'.inner
        /\ (WriteStarts /\ timeout > 0) =>
              /\ wdl' = {now + timeout}
              /\ lastSet' = {[at |-> now, by |-> "write"]}
              /\ ~wr'.inner
        /\ ReadEnters =>
              /\ rd.pending
              /\ UNCHANGED <<rdl, wdl, lastSet>>
              /\ timeout > 0 => \E d \in rdl : d >= rd.start + timeout
        /\ WriteEnters =>
              /\ wr.pending
              /\ UNCHANGED <<rdl, wdl, lastSet>>
              /\ timeout > 0 => \E d \in wdl : d >= wr.start + timeout
        /\ timeout <= 0 => (rdl' = {} /\ wdl' = {} /\ lastSet' = {}) ]_vars

\* A read inside the underlying call under the deadline it set on entry.
C14_Witness ==
    /\ timeout = 2 /\ rd.inner /\ rd.start = 1
    /\ rdl = {3} /\ lastSet = {[at |-> 1, by |-> "read"]}

\* C19: the stream has one deadline for both directions: a Read sets the write
\* deadline as well as the read deadline, a Write the read deadline too, so a
\* Write entered while a Read is pending moves that Read's deadline to the time
\* of the Write + T.
C19_OneDeadlineBothWays ==
    [][ /\ rdl' = wdl'
        /\ (ReadStarts /\ timeout > 0) => wdl' = {now + timeout}
        /\ (WriteStarts /\ timeout > 0) => rdl' = {now + timeout}
        /\ (WriteStarts /\ timeout > 0 /\ rd.pending) =>
              (rd'.pending /\ rd'.start = rd.start /\ rdl' = {now + timeout}) ]_vars

\* A read still blocked later than T past its start, its deadline moved by a
\* write that came after it.
C19_Witness ==
    /\ timeout > 0 /\ rd.inner /\ ~wr.pending
    /\ now > rd.start + timeout
    /\ \E at \in (rd.start + 1)..MaxTime :
          /\ lastSet = {[at |-> at, by |-> "write"]}
          /\ rdl = {at + timeout}
    /\ ~Expired(rdl)

====
